---- MODULE Spec2Model ----
(***************************************************************************)
(* The "Price Surface" page of the dashboard (dashboard/pages/surface.py): *)
(* get_surface_data, build_surface_figure and layout, with the two         *)
(* functools.lru_cache(maxsize=1) memo tables that wrap the first two, as  *)
(* a state machine of one server process whose request threads call        *)
(* layout().                                                               *)
(***************************************************************************)
EXTENDS Integers, Sequences, FiniteSets, TLC

\* ------------------------------------------------------------------ bounds
MaxRows == 3      \* rows of an upstream table
MaxHour == 2      \* hours of day that occur in the tables: 0..MaxHour
MaxCalls == 3     \* layout() calls in one run of the process
NumThreads == 2   \* request threads of the process

Threads == 1..NumThreads
Hours == 0..MaxHour
Months == {1, 2}   \* the calendar months that occur in the tables

\* ------------------------------------------------------------------- cells
\* One cell of a DataFrame.  a, b carry a timestamp's (month, hour) or a
\* number's value; a string cell spells a timestamp iff its a is a month.
Text(m, h) == [kind |-> "string", a |-> m, b |-> h]
Garbage == [kind |-> "string", a |-> 0, b |-> 0]
Num(v) == [kind |-> "number", a |-> v, b |-> 0]
NaN == [kind |-> "nan", a |-> 0, b |-> 0]
Timestamp(m, h) == [kind |-> "timestamp", a |-> m, b |-> h]
NaT == [kind |-> "nat", a |-> 0, b |-> 0]

\* pd.to_datetime(cell, errors="coerce"): a string that spells a timestamp
\* parses, a number is read as nanoseconds since 1970-01-01 00:00, anything
\* else is coerced to NaT.
to_datetime(cell) ==
    CASE cell.kind = "timestamp" -> cell
      [] cell.kind = "string" /\ cell.a \in 1..12 -> Timestamp(cell.a, cell.b)
      [] cell.kind = "number" -> Timestamp(1, 0)
      [] OTHER -> NaT

\* ------------------------------------------------------------ column names
\* Column labels.  "#7" stands for the integer label 7, which has no lower().
NonStringLabels == {"#7"}

Chars ==
    [n \in {"datetime", "Date", "TIME", "updated", "standardized_price",
            "charge", "id"} |->
        CASE n = "datetime" -> <<"d", "a", "t", "e", "t", "i", "m", "e">>
          [] n = "Date" -> <<"D", "a", "t", "e">>
          [] n = "TIME" -> <<"T", "I", "M", "E">>
          [] n = "updated" -> <<"u", "p", "d", "a", "t", "e", "d">>
          [] n = "standardized_price" ->
                <<"s", "t", "a", "n", "d", "a", "r", "d", "i", "z", "e", "d",
                  "_", "p", "r", "i", "c", "e">>
          [] n = "charge" -> <<"c", "h", "a", "r", "g", "e">>
          [] OTHER -> <<"i", "d">>]

\* str.lower() on one character.
LowerChar(ch) ==
    CASE ch = "D" -> "d"
      [] ch = "T" -> "t"
      [] ch = "I" -> "i"
      [] ch = "M" -> "m"
      [] ch = "E" -> "e"
      [] OTHER -> ch

Lower(s) == [i \in 1..Len(s) |-> LowerChar(s[i])]

\* sub in s, for sequences of characters.
Contains(s, sub) ==
    \E i \in 0..(Len(s) - Len(sub)) :
        \A j \in 1..Len(sub) : s[i + j] = sub[j]

\* "date" in c.lower() or "time" in c.lower()
IsDateLike(c) ==
    \/ Contains(Lower(Chars[c]), <<"d", "a", "t", "e">>)
    \/ Contains(Lower(Chars[c]), <<"t", "i", "m", "e">>)

\* ------------------------------------------------------------------ tables
\* A DataFrame: its column labels in order, and its rows (each a function
\* from the column labels to cells).
Range(s) == {s[i] : i \in 1..Len(s)}

EmptyTable == [columns |-> <<>>, rows |-> <<>>]

SeqsUpTo(S, n) == UNION {[1..k -> S] : k \in 0..n}

\* What load_master() does when called: raises, returns a value that is no
\* DataFrame (None), or returns a DataFrame.
Raises == [kind |-> "raises", table |-> EmptyTable]
NotATable == [kind |-> "none", table |-> EmptyTable]
Table(cols, rows) == [kind |-> "table", table |-> [columns |-> cols, rows |-> rows]]

\* --------------------------------------------------- what upstream returns
\* Column headers whose timestamp and price columns differ in name, order
\* and presence.
Headers ==
    { <<"datetime", "standardized_price">>,
      <<"Date", "datetime", "charge">>,
      <<"TIME", "Date", "standardized_price", "charge">>,
      <<"Date", "TIME", "charge">>,
      <<"updated", "TIME", "charge">>,
      <<"id", "standardized_price">>,
      <<"Date", "id">>,
      <<"#7", "Date", "charge">>,
      <<"#7", "datetime", "charge">>,
      <<"charge", "standardized_price", "datetime">> }

TimeNames == {"datetime", "Date", "TIME", "updated"}
PriceNames == {"standardized_price", "charge"}

\* Tables over every header: a timestamp-like column holds a string that
\* spells a timestamp or one that does not, in every combination and order.
HeaderCells(c) ==
    IF c \in TimeNames THEN {Text(1, 0), Garbage}
    ELSE IF c \in PriceNames THEN {Num(10)}
    ELSE {Num(0)}

HeaderRows(cols) ==
    {r \in [Range(cols) -> {Text(1, 0), Garbage, Num(10), Num(0)}] :
        \A c \in Range(cols) : r[c] \in HeaderCells(c)}

HeaderTables ==
    UNION {{Table(cols, rows) : rows \in SeqsUpTo(HeaderRows(cols), MaxRows)} :
           cols \in Headers}

\* Tables of (timestamp, price) records: every hour and month of the bounds,
\* prices 10, 20 and missing, and one record whose timestamp does not parse.
\* A bag of records is listed once, in the order of RecordRank (the grid does
\* not depend on the order of the records; HeaderTables varies the order).
Prices == {Num(10), Num(20), NaN}

Record(ts, price) ==
    [c \in {"datetime", "standardized_price"} |->
        IF c = "datetime" THEN ts ELSE price]

Records ==
    {Record(Text(m, h), p) : m \in Months, h \in Hours, p \in Prices}
        \cup {Record(Garbage, Num(20))}

CellRank(cell) ==
    (IF cell.kind = "nan" THEN 1 ELSE 0) + 2 * cell.a + 100 * cell.b

RecordRank(r) == 1000 * CellRank(r["datetime"]) + CellRank(r["standardized_price"])

RECURSIVE RankSorted(_)
RankSorted(S) ==
    IF S = {} THEN <<>>
    ELSE LET lo == CHOOSE r \in S : \A q \in S : RecordRank(r) <= RecordRank(q)
         IN  <<lo>> \o RankSorted(S \ {lo})

RecordList == RankSorted(Records)

\* The nondecreasing sequences of k indices of RecordList, each at least lo.
RECURSIVE Bags(_, _)
Bags(k, lo) ==
    IF k = 0 THEN {<<>>}
    ELSE UNION {{<<i>> \o s : s \in Bags(k - 1, i)} : i \in lo..Len(RecordList)}

RecordTables ==
    {Table(<<"datetime", "standardized_price">>, [k \in 1..Len(s) |-> RecordList[s[k]]]) :
        s \in UNION {Bags(k, 1) : k \in 0..MaxRows}}

\* Tables whose price column holds text in some rows.
TextPriceTables ==
    {Table(<<"datetime", "standardized_price">>, rows) :
        rows \in SeqsUpTo({Record(Text(1, 0), Num(10)),
                           Record(Text(1, 0), Garbage)}, MaxRows)}

AllSources == {Raises, NotATable} \cup HeaderTables \cup RecordTables \cup TextPriceTables

\* The upstream answers of the server runs: the fetch fails, or returns one
\* of four small tables.
ServerSources ==
    { Raises,
      Table(<<"datetime", "standardized_price">>, <<Record(Text(1, 0), Num(10))>>),
      Table(<<"datetime", "standardized_price">>, <<Record(Text(1, 0), Num(20))>>),
      Table(<<"datetime", "standardized_price">>, <<Record(Text(1, 0), Garbage)>>) }

\* -------------------------------------------------------- get_surface_data
\* c.lower() on a label that is no string raises AttributeError; the list
\* comprehension visits every column, and only when "datetime" is absent.
LowerRaises(cols) ==
    /\ "datetime" \notin Range(cols)
    /\ \E c \in Range(cols) : c \in NonStringLabels

\* Mutant: the last date-like column is taken.
DatetimeSource_LastMatch(cols) ==
    IF "datetime" \in Range(cols) THEN "datetime"
    ELSE LET datetime_cols == SelectSeq(cols, IsDateLike)
         IN  IF datetime_cols # <<>> THEN datetime_cols[Len(datetime_cols)] ELSE "<NaT>"

\* The column pd.to_datetime reads; "<NaT>" when df["datetime"] = pd.NaT.
DatetimeSource(cols) ==
    IF "datetime" \in Range(cols) THEN "datetime"
    ELSE LET datetime_cols == SelectSeq(cols, IsDateLike)
         IN  IF datetime_cols # <<>> THEN datetime_cols[1] ELSE "<NaT>"

\* df["datetime"] = ...: the column is replaced in place, or appended.
WithDatetime(df) ==
    LET src == DatetimeSource(df.columns)
        cols == IF "datetime" \in Range(df.columns) THEN df.columns
                ELSE Append(df.columns, "datetime")
    IN  [columns |-> cols,
         rows |-> [i \in 1..Len(df.rows) |->
                     [c \in Range(cols) |->
                        IF c = "datetime"
                        THEN (IF src = "<NaT>" THEN NaT
                              ELSE to_datetime(df.rows[i][src]))
                        ELSE df.rows[i][c]]]]

\* df.dropna(subset=["datetime"])
IsStamped(row) == row["datetime"].kind = "timestamp"

dropna(df) == [columns |-> df.columns, rows |-> SelectSeq(df.rows, IsStamped)]

\* Mutant: charge is tried first.
ChoosePriceCol_ChargeFirst(cols) ==
    IF "charge" \in Range(cols) THEN "charge"
    ELSE IF "standardized_price" \in Range(cols) THEN "standardized_price"
    ELSE "None"

ChoosePriceCol(cols) ==
    IF "standardized_price" \in Range(cols) THEN "standardized_price"
    ELSE IF "charge" \in Range(cols) THEN "charge"
    ELSE "None"

\* The body of the try block: what it returns, or that it raised.
PrepareBody(src) ==
    IF src.kind = "raises" \/ src.kind = "none" \/ LowerRaises(src.table.columns)
    THEN [raised |-> TRUE, df |-> EmptyTable, price_col |-> "None"]
    ELSE LET df == dropna(WithDatetime(src.table))
         IN  [raised |-> FALSE, df |-> df, price_col |-> ChoosePriceCol(df.columns)]

\* Mutant: the handler catches only what load_master raises.
get_surface_data_NarrowExcept(src) ==
    IF src.kind = "raises"
    THEN [raised |-> FALSE, df |-> EmptyTable, price_col |-> "None"]
    ELSE PrepareBody(src)

\* except Exception: return pd.DataFrame(), None
get_surface_data(src) ==
    LET body == PrepareBody(src)
    IN  IF body.raised
        THEN [raised |-> FALSE, df |-> EmptyTable, price_col |-> "None"]
        ELSE body

\* ----------------------------------------------------- build_surface_figure
\* Grid values are exact fractions n/d in lowest terms; d = 0 is NaN.
RECURSIVE GCD(_, _)
GCD(a, b) == IF b = 0 THEN a ELSE GCD(b, a % b)

Frac(n, d) == LET g == GCD(n, d) IN [n |-> n \div g, d |-> d \div g]
Missing == [n |-> 0, d |-> 0]
Zero == [n |-> 0, d |-> 1]

RECURSIVE SortedSeq(_)
SortedSeq(S) ==
    IF S = {} THEN <<>>
    ELSE LET lo == CHOOSE v \in S : \A w \in S : v <= w
         IN  <<lo>> \o SortedSeq(S \ {lo})

RECURSIVE SumOf(_, _)
SumOf(rows, col) ==
    IF rows = <<>> THEN 0 ELSE Head(rows)[col].a + SumOf(Tail(rows), col)

\* Mutant: aggfunc="sum".
mean_AsSum(rows, col) == Frac(SumOf(rows, col), 1)

\* aggfunc="mean" over the rows of one group (NaN prices are already out).
mean(rows, col) == Frac(SumOf(rows, col), Len(rows))

\* df["month"] = df["datetime"].dt.month; df["hour"] = df["datetime"].dt.hour
MonthOf(row) == row["datetime"].a
HourOf(row) == row["datetime"].b

\* The rows of group (hour h, month m) that the mean is taken over: the mean
\* skips NaN prices.
GroupRows(df, col, h, m) ==
    LET InGroup(row) == HourOf(row) = h /\ MonthOf(row) = m /\ row[col].kind = "number"
    IN  SelectSeq(df.rows, InGroup)

\* The mean of a price column that holds a text value raises.
mean_raises(df, col) ==
    \E i \in 1..Len(df.rows) : df.rows[i][col].kind \notin {"number", "nan"}

\* df.pivot_table(index="hour", columns="month", values=col, aggfunc="mean"):
\* pivot_table drops the groups whose mean is NaN (dropna=True), so the index
\* and the columns are the hours and months of the groups that remain.
pivot_table(df, col) ==
    LET groups == {<<HourOf(df.rows[i]), MonthOf(df.rows[i])>> :
                       i \in {k \in 1..Len(df.rows) : df.rows[k][col].kind = "number"}}
        index == SortedSeq({g[1] : g \in groups})
        columns == SortedSeq({g[2] : g \in groups})
    IN  [index |-> index,
         columns |-> columns,
         values |-> [i \in 1..Len(index) |-> [j \in 1..Len(columns) |->
                       IF <<index[i], columns[j]>> \in groups
                       THEN mean(GroupRows(df, col, index[i], columns[j]), col)
                       ELSE Missing]]]

\* Mutant: limit_area="inside", nothing after the last valid value is filled.
interpolate_at_InsideOnly(col, i) ==
    LET before == {k \in 1..(i - 1) : col[k].d # 0}
        after == {k \in (i + 1)..Len(col) : col[k].d # 0}
    IN  IF col[i].d # 0 \/ before = {} \/ after = {} THEN col[i]
        ELSE LET k1 == CHOOSE k \in before : \A l \in before : l <= k
                 k2 == CHOOSE k \in after : \A l \in after : k <= l
             IN  Frac(col[k1].n * col[k2].d * (k2 - i)
                        + col[k2].n * col[k1].d * (i - k1),
                      col[k1].d * col[k2].d * (k2 - k1))

\* One column of pivot.interpolate(method="linear", axis=0): "linear" ignores
\* the index and treats the rows as equally spaced; a NaN after the last valid
\* value takes that value (limit_direction "forward"), a NaN before the first
\* valid value stays NaN.
interpolate_at(col, i) ==
    LET before == {k \in 1..(i - 1) : col[k].d # 0}
        after == {k \in (i + 1)..Len(col) : col[k].d # 0}
    IN  IF col[i].d # 0 \/ before = {} THEN col[i]
        ELSE LET k1 == CHOOSE k \in before : \A l \in before : l <= k
             IN  IF after = {} THEN col[k1]
                 ELSE LET k2 == CHOOSE k \in after : \A l \in after : k <= l
                      IN  Frac(col[k1].n * col[k2].d * (k2 - i)
                                 + col[k2].n * col[k1].d * (i - k1),
                               col[k1].d * col[k2].d * (k2 - k1))

interpolate(pivot) ==
    [pivot EXCEPT !.values =
        [i \in 1..Len(pivot.index) |-> [j \in 1..Len(pivot.columns) |->
            interpolate_at([k \in 1..Len(pivot.index) |-> pivot.values[k][j]], i)]]]

\* .fillna(0)
fillna(pivot) ==
    [pivot EXCEPT !.values =
        [i \in 1..Len(pivot.index) |-> [j \in 1..Len(pivot.columns) |->
            IF pivot.values[i][j].d = 0 THEN Zero ELSE pivot.values[i][j]]]]

\* go.Figure() with the axes hidden and no trace.
BlankFigure == [kind |-> "blank", x |-> <<>>, y |-> <<>>, z |-> <<>>]

\* go.Figure(data=[go.Surface(z=pivot.values, x=pivot.columns, y=pivot.index)])
SurfaceFigure(pivot) ==
    [kind |-> "surface", x |-> pivot.columns, y |-> pivot.index, z |-> pivot.values]

\* Mutant: only the columns are looked at.
IsEmpty_ColumnsOnly(df) == Len(df.columns) = 0

\* df.empty: an axis of length 0.
IsEmpty(df) == Len(df.columns) = 0 \/ Len(df.rows) = 0

\* The guard of build_surface_figure.
Unusable(data) == IsEmpty(data.df) \/ data.price_col = "None"

\* The body of build_surface_figure on what get_surface_data returned: the
\* figure, or that the body raised (there is no try block in it).
build_surface_figure(data) ==
    IF Unusable(data) THEN [raised |-> FALSE, fig |-> BlankFigure]
    ELSE IF mean_raises(data.df, data.price_col)
    THEN [raised |-> TRUE, fig |-> BlankFigure]
    ELSE [raised |-> FALSE,
          fig |-> SurfaceFigure(fillna(interpolate(pivot_table(data.df, data.price_col))))]

\* ------------------------------------------------------------- the process
VARIABLES
    upstream,    \* what load_master() does if it is called now
    data_cache,  \* the lru_cache(maxsize=1) of get_surface_data: <<>> or <<entry>>
    fig_cache,   \* the lru_cache(maxsize=1) of build_surface_figure
    pc,          \* where each request thread is inside layout()
    data,        \* (df, price_col) as held by a thread inside build_surface_figure
    exc,         \* the stage whose exception ended the thread's last layout() call
    calls,       \* layout() calls begun
    prepRuns,    \* executions of the body of get_surface_data begun
    buildRuns,   \* executions of the body of build_surface_figure begun
    returned     \* the figures that completed build_surface_figure() calls returned

vars == <<upstream, data_cache, fig_cache, pc, data, exc, calls, prepRuns,
          buildRuns, returned>>

NoData == [raised |-> FALSE, df |-> EmptyTable, price_col |-> "None"]

\* The key () is stored by the call that finishes first; a call that finishes
\* while the key is present returns its own result and leaves the entry.
CacheStore(cache, value) == IF cache = <<>> THEN <<value>> ELSE cache

StartState ==
    /\ data_cache = <<>>
    /\ fig_cache = <<>>
    /\ pc = [t \in Threads |-> "idle"]
    /\ data = [t \in Threads |-> NoData]
    /\ exc = [t \in Threads |-> "none"]
    /\ calls = 0
    /\ prepRuns = 0
    /\ buildRuns = 0
    /\ returned = {}

\* layout() evaluates figure=build_surface_figure(): a hit returns the stored
\* figure, a miss enters the body.
layout(t) ==
    /\ pc[t] = "idle"
    /\ calls < MaxCalls
    /\ calls' = calls + 1
    /\ exc' = [exc EXCEPT ![t] = "none"]
    /\ IF fig_cache # <<>>
       THEN /\ returned' = returned \cup {fig_cache[1]}
            /\ UNCHANGED <<pc, buildRuns>>
       ELSE /\ pc' = [pc EXCEPT ![t] = "build"]
            /\ buildRuns' = buildRuns + 1
            /\ UNCHANGED returned
    /\ UNCHANGED <<upstream, data_cache, fig_cache, data, prepRuns>>

\* df, price_col = get_surface_data(): a hit returns the stored pair, a miss
\* enters the body.
DataCall(t) ==
    /\ pc[t] = "build"
    /\ IF data_cache # <<>>
       THEN /\ data' = [data EXCEPT ![t] = data_cache[1]]
            /\ pc' = [pc EXCEPT ![t] = "figure"]
            /\ UNCHANGED prepRuns
       ELSE /\ pc' = [pc EXCEPT ![t] = "prepare"]
            /\ prepRuns' = prepRuns + 1
            /\ UNCHANGED data
    /\ UNCHANGED <<upstream, data_cache, fig_cache, exc, calls, buildRuns, returned>>

\* The body of get_surface_data runs on what load_master() returns now; an
\* exception that leaves it unwinds build_surface_figure and layout.
Prepare(t) ==
    /\ pc[t] = "prepare"
    /\ LET result == get_surface_data(upstream)
       IN  IF result.raised
           THEN /\ exc' = [exc EXCEPT ![t] = "prepare"]
                /\ pc' = [pc EXCEPT ![t] = "idle"]
                /\ UNCHANGED <<data_cache, data>>
           ELSE /\ data_cache' = CacheStore(data_cache, result)
                /\ data' = [data EXCEPT ![t] = result]
                /\ pc' = [pc EXCEPT ![t] = "figure"]
                /\ UNCHANGED exc
    /\ UNCHANGED <<upstream, fig_cache, calls, prepRuns, buildRuns, returned>>

\* The rest of the body of build_surface_figure; an exception unwinds layout
\* and nothing is stored.
Figure(t) ==
    /\ pc[t] = "figure"
    /\ LET built == build_surface_figure(data[t])
       IN  IF built.raised
           THEN /\ exc' = [exc EXCEPT ![t] = "build"]
                /\ UNCHANGED <<fig_cache, returned>>
           ELSE /\ fig_cache' = CacheStore(fig_cache, built.fig)
                /\ returned' = returned \cup {built.fig}
                /\ UNCHANGED exc
    /\ pc' = [pc EXCEPT ![t] = "idle"]
    /\ data' = [data EXCEPT ![t] = NoData]
    /\ UNCHANGED <<upstream, data_cache, calls, prepRuns, buildRuns>>

\* The upstream source changes what a fetch would give.
UpstreamChange ==
    /\ \E src \in ServerSources \ {upstream} : upstream' = src
    /\ UNCHANGED <<data_cache, fig_cache, pc, data, exc, calls, prepRuns,
                   buildRuns, returned>>

\* The server process: request threads, and an upstream that changes.
Init == upstream \in ServerSources /\ StartState

Next ==
    \/ UpstreamChange
    \/ \E t \in Threads : layout(t)
    \/ \E t \in Threads : DataCall(t)
    \/ \E t \in Threads : Prepare(t)
    \/ \E t \in Threads : Figure(t)

Spec == Init /\ [][Next]_vars

\* The pipeline on every upstream answer of the bounds: one thread calls
\* layout() on a fixed upstream.
PipelineInit == upstream \in AllSources /\ StartState

PipelineNext ==
    \/ layout(1)
    \/ DataCall(1)
    \/ Prepare(1)
    \/ Figure(1)

SpecPipeline == PipelineInit /\ [][PipelineNext]_vars

\* ------------------------------------------------------------------ claims
\* What the claims read off the upstream table and off a returned figure.
UpCols == Range(upstream.table.columns)
UpRows == upstream.table.rows

\* The upstream answer is a table with a datetime and a standardized_price column.
IsPriceTable ==
    upstream.kind = "table" /\ {"datetime", "standardized_price"} \subseteq UpCols

\* The records of hour h, month m, and those among them with a price.
RecordsAt(h, m) ==
    {i \in 1..Len(UpRows) : to_datetime(UpRows[i]["datetime"]) = Timestamp(m, h)}

PricedAt(h, m) ==
    {i \in RecordsAt(h, m) : UpRows[i]["standardized_price"].kind = "number"}

RECURSIVE PriceSum(_)
PriceSum(S) ==
    IF S = {} THEN 0
    ELSE LET i == CHOOSE k \in S : TRUE
         IN  UpRows[i]["standardized_price"].a + PriceSum(S \ {i})

HasCell(f, h, m) ==
    (\E i \in 1..Len(f.y) : f.y[i] = h) /\ (\E j \in 1..Len(f.x) : f.x[j] = m)

CellValue(f, h, m) ==
    f.z[CHOOSE i \in 1..Len(f.y) : f.y[i] = h][CHOOSE j \in 1..Len(f.x) : f.x[j] = m]

\* The grid value v is the mean of the prices of the records S.
IsMeanOf(v, S) == v.d # 0 /\ v.n * Cardinality(S) = v.d * PriceSum(S)

\* The process with one request thread only: calls never overlap.  Under it
\* C1_SameFigureEveryCall and C2_ComputedAtMostOnce's prepRuns <= 1 hold.
OneThreadNext ==
    \/ UpstreamChange
    \/ layout(1)
    \/ DataCall(1)
    \/ Prepare(1)
    \/ Figure(1)

SpecOneThread == Init /\ [][OneThreadNext]_vars

\* C1: any two completed build_surface_figure() calls of one process
\* returned the same figure, whatever the upstream would give on a new fetch.
C1_SameFigureEveryCall == Cardinality(returned) <= 1

\* C2: for any sequence of layout() calls, overlapping first calls included,
\* the body of get_surface_data and the body of build_surface_figure each
\* execute at most once.
C2_ComputedAtMostOnce == prepRuns <= 1 /\ buildRuns <= 1

\* The fetch fails, or the table has an integer column label and no datetime
\* column (c.lower() fails on it).
C3_PreparationFails ==
    \/ upstream.kind # "table"
    \/ "datetime" \notin UpCols /\ UpCols \cap NonStringLabels # {}

\* C3: get_surface_data never raises to its caller: when load_master raises,
\* returns no table, or returns a table the preparation fails on, the call
\* returns the empty table and the price field None.
C3_PrepareNeverRaises ==
    /\ \A t \in Threads : exc[t] # "prepare"
    /\ (data_cache # <<>> /\ C3_PreparationFails) =>
          data_cache[1] = [raised |-> FALSE, df |-> EmptyTable, price_col |-> "None"]

\* C3 witness: a table with an integer column label and no datetime column
\* was fetched and the call returned.
C3_Witness ==
    /\ data_cache # <<>>
    /\ upstream.kind = "table"
    /\ C3_PreparationFails
    /\ Len(UpRows) > 0

\* C4: build_surface_figure never raises past its boundary: no layout() call
\* ends with an exception from the build.
C4_BuildNeverRaises == \A t \in Threads : exc[t] # "build"

\* C5 as stated: for a table with a datetime and a standardized_price column,
\* the grid value at every (h, m) that has a record is the arithmetic mean of
\* standardized_price over exactly the records of that hour and month.
C5_MeanOverAllRecords ==
    \A f \in returned :
        IsPriceTable =>
            \A h \in Hours : \A m \in Months :
                RecordsAt(h, m) # {} =>
                    /\ HasCell(f, h, m)
                    /\ PricedAt(h, m) = RecordsAt(h, m)
                    /\ IsMeanOf(CellValue(f, h, m), RecordsAt(h, m))

\* C5 amended: for every (h, m) that has a record with a price that is not
\* missing, the grid value is the arithmetic mean over exactly the records of
\* that hour and month whose price is not missing.
C5_MeanOverPricedRecords ==
    \A f \in returned :
        IsPriceTable =>
            \A h \in Hours : \A m \in Months :
                PricedAt(h, m) # {} =>
                    /\ HasCell(f, h, m)
                    /\ IsMeanOf(CellValue(f, h, m), PricedAt(h, m))

\* C5 witness: a figure was returned for a table in which one (h, m) has two
\* records with different prices and a third with a missing price.
C5_Witness ==
    /\ returned # {}
    /\ IsPriceTable
    /\ \E h \in Hours : \E m \in Months :
          /\ PricedAt(h, m) # RecordsAt(h, m)
          /\ \E i \in PricedAt(h, m) : \E j \in PricedAt(h, m) :
                UpRows[i]["standardized_price"] # UpRows[j]["standardized_price"]

\* The preparation reached the end of its try block: only then does the
\* prepared table have a datetime column.
Resolved == data_cache # <<>> /\ "datetime" \in Range(data_cache[1].df.columns)

\* C6: the price field is standardized_price whenever that column is
\* present, charge when only charge is present, None when neither is.
C6_PricePriority ==
    (upstream.kind = "table" /\ Resolved) =>
        /\ "standardized_price" \in UpCols =>
              data_cache[1].price_col = "standardized_price"
        /\ ("standardized_price" \notin UpCols /\ "charge" \in UpCols) =>
              data_cache[1].price_col = "charge"
        /\ ("standardized_price" \notin UpCols /\ "charge" \notin UpCols) =>
              data_cache[1].price_col = "None"

\* C6 witness: both price columns are present, charge first, and the
\* preparation has returned.
C6_Witness ==
    /\ Resolved
    /\ upstream.kind = "table"
    /\ upstream.table.columns = <<"charge", "standardized_price", "datetime">>
    /\ Len(UpRows) > 0

\* The upstream table has no column named datetime and no column whose
\* lower-cased name contains "date" or "time".
NoTimestampColumn ==
    /\ upstream.kind = "table"
    /\ \A c \in UpCols : c \notin NonStringLabels /\ ~IsDateLike(c)

\* C7: whenever the prepared table has zero rows or the price field is
\* None, the build returns the blank figure and no error; a table with no
\* timestamp-like column is prepared to zero rows.
C7_BlankWhenUnusable ==
    /\ (data_cache # <<>> /\ NoTimestampColumn) => Len(data_cache[1].df.rows) = 0
    /\ (data_cache # <<>> /\ (Len(data_cache[1].df.rows) = 0
                                \/ data_cache[1].price_col = "None")) =>
          /\ \A t \in Threads : exc[t] = "none"
          /\ \A f \in returned : f = BlankFigure
          /\ (\A t \in Threads : pc[t] = "idle") => returned = {BlankFigure}

\* C7 witness: the blank figure was returned for a table that has rows and
\* a price column but no timestamp-like column.
C7_Witness ==
    /\ returned = {BlankFigure}
    /\ NoTimestampColumn
    /\ "standardized_price" \in UpCols
    /\ Len(UpRows) > 0

\* The column the claim names as the parse source: datetime if present,
\* else the first column, in column order, that is date- or time-like.
C9_Source ==
    LET cols == upstream.table.columns
    IN  IF "datetime" \in UpCols THEN "datetime"
        ELSE cols[CHOOSE i \in 1..Len(cols) :
                    /\ IsDateLike(cols[i])
                    /\ \A j \in 1..(i - 1) : ~IsDateLike(cols[j])]

C9_HasSource == "datetime" \in UpCols \/ \E c \in UpCols : IsDateLike(c)

C9_Parses(row) == to_datetime(row[C9_Source]).kind = "timestamp"

\* C9: the prepared table holds exactly the input records whose timestamp,
\* parsed from the resolved source column, is not missing, in their order;
\* a value that does not parse is missing and raises nothing.
C9_ResolveAndFilter ==
    (upstream.kind = "table" /\ Resolved) =>
        LET prepared == data_cache[1].df.rows
            kept == IF C9_HasSource THEN SelectSeq(UpRows, C9_Parses) ELSE <<>>
        IN  /\ Len(prepared) = Len(kept)
            /\ \A k \in 1..Len(kept) :
                  /\ prepared[k]["datetime"] = to_datetime(kept[k][C9_Source])
                  /\ \A c \in UpCols \ {"datetime"} : prepared[k][c] = kept[k][c]

\* C9 witness: no datetime column, two date-like columns that disagree on
\* which rows parse, one row kept and one dropped.
C9_Witness ==
    /\ Resolved
    /\ upstream.kind = "table"
    /\ upstream.table.columns = <<"TIME", "Date", "standardized_price", "charge">>
    /\ \E i \in 1..Len(UpRows) : \E j \in 1..Len(UpRows) :
          /\ UpRows[i]["TIME"] = Garbage /\ UpRows[i]["Date"] # Garbage
          /\ UpRows[j]["TIME"] # Garbage /\ UpRows[j]["Date"] = Garbage
    /\ Len(data_cache[1].df.rows) > 0
    /\ Len(data_cache[1].df.rows) < Len(UpRows)

\* h1 and h2 are the nearest hours around h that have a priced record in
\* month m, and (h, m) has no record.
C8_Gap(h1, h, h2, m) ==
    /\ h1 < h /\ h < h2
    /\ RecordsAt(h, m) = {}
    /\ PricedAt(h1, m) # {} /\ PricedAt(h2, m) # {}
    /\ \A k \in Hours : (h1 < k /\ k < h2) => PricedAt(k, m) = {}

\* v lies on the straight line through (h1, mean at h1) and (h2, mean at h2).
C8_OnLine(v, h1, h, h2, m) ==
    LET c1 == Cardinality(PricedAt(h1, m))
        c2 == Cardinality(PricedAt(h2, m))
    IN  /\ v.d # 0
        /\ v.n * c1 * c2 * (h2 - h1) =
              v.d * (PriceSum(PricedAt(h1, m)) * c2 * (h2 - h)
                       + PriceSum(PricedAt(h2, m)) * c1 * (h - h1))

\* C8: for every month m and every hour h without a record that lies between
\* two hours with records in month m, the grid has the cell (h, m) and its
\* value lies on the straight line between the two neighbours; the records
\* (h=0, m=1, 10), (h=2, m=1, 20) give the cell (1, 1) the value 15.
C8_InterpolatedAlongHours ==
    \A f \in returned :
        IsPriceTable =>
            \A m \in Months : \A h1 \in Hours : \A h \in Hours : \A h2 \in Hours :
                C8_Gap(h1, h, h2, m) =>
                    /\ HasCell(f, h, m)
                    /\ C8_OnLine(CellValue(f, h, m), h1, h, h2, m)

\* Hours of month m, before or after h, with a record; with a priced record.
C10_RecordBefore(h, m) == \E k \in Hours : k < h /\ RecordsAt(k, m) # {}
C10_RecordAfter(h, m) == \E k \in Hours : k > h /\ RecordsAt(k, m) # {}
C10_PricedBefore(h, m) == {k \in Hours : k < h /\ PricedAt(k, m) # {}}
C10_PricedAfter(h, m) == {k \in Hours : k > h /\ PricedAt(k, m) # {}}

====
